---- MODULE Spec2Model ----
(***************************************************************************)
(* ComicPlayer (src/comicPlayer/comicPlayer.js): frame normalisation, the  *)
(* load gate, play/stop and the timer-driven scheduler ("thread").         *)
(*                                                                         *)
(* The sound engine (soundManager and its sound objects) is the external   *)
(* collaborator: per track it holds readyState, playState and position.    *)
(* Times are milliseconds.  Timers fire in any order (no clock): every     *)
(* pending one-shot and every live interval may fire next.                 *)
(***************************************************************************)
EXTENDS Integers, Sequences, FiniteSets, TLC

VARIABLES
    audioFrames,      \* the normalised frame list (begin, end, audioRef set)
    audio,            \* the track list: audio[t] is the url of track t
    duration,         \* audio[t].object.duration
    hasObject,        \* audio[t].object is non-null
    readyState,       \* audio[t].object.readyState (0,1 loading; 2 ready; 3 failed)
    playState,        \* audio[t].object.playState
    position,         \* audio[t].object.position
    smState,          \* soundManager.onready: "init", "ready" or "failed"
    doneLoading,
    errorsLoading,
    loadTimer,        \* the 50 ms re-poll of load() is pending
    fromFrame,
    currentFrame,
    toFrame,
    threadId,
    threadTimeoutId,
    timeouts,         \* pending one-shot timers of run(): set of <<handle, delay>>
    intervals,        \* live periodic timers: set of handles
    lastOp,           \* the handler that ran last, its arguments and its outcome
    calls,            \* engine calls made by the last handler, in order
    notes,            \* onFrameChange invocations made by the last handler
    sched             \* delays of the one-shots scheduled by the last handler

vars == << audioFrames, audio, duration, hasObject, readyState, playState, position, smState,
           doneLoading, errorsLoading, loadTimer, fromFrame,
           currentFrame, toFrame, threadId, threadTimeoutId, timeouts,
           intervals, lastOp, calls, notes, sched >>

(***************************************************************************)
(* Bounds of the model.                                                    *)
(***************************************************************************)
ArgSlack == 1        \* play() arguments range over -ArgSlack .. length-1+ArgSlack

(***************************************************************************)
(* Program constants.                                                      *)
(***************************************************************************)
updateDelay == 100
fastDelay == 10
minDelay == 10
positionSlack == 200
minSeek == 1
Idle == 0 - 1
Unbounded == 0 - 1
NULL == 0

(***************************************************************************)
(* The engine's side: duration of every track and the positions at which   *)
(* the engine is observed.                                                 *)
(***************************************************************************)
TrackDuration == 700
Positions == {295, 350, 450, 650}

(***************************************************************************)
(* Constructor: frame normalisation and track deduplication.               *)
(* A raw bound is <<>> when the property is absent and <<v>> otherwise.    *)
(***************************************************************************)
Falsy(x) == x = << >> \/ x[1] = 0

ClampBound(x) == IF Falsy(x) \/ x[1] < 0 THEN Unbounded ELSE x[1]

\* (variant: inverted bounds are kept)
RepairBoundsKept(b, e) == [begin |-> b, end |-> e]

RepairBounds(b, e) ==
    IF e # Unbounded /\ e < b THEN [begin |-> e, end |-> b]
                              ELSE [begin |-> b, end |-> e]

\* index of the first track with this url, or 0
RECURSIVE FindTrack(_, _, _)
FindTrack(tracks, url, j) ==
    IF j > Len(tracks) THEN 0
    ELSE IF tracks[j] = url THEN j
    ELSE FindTrack(tracks, url, j + 1)

\* (variant: a track is pushed for every frame)
TracksNoDedup(raw, n) == [i \in 1..n |-> raw[i].url]

\* the track list (urls in order of first appearance) after frames 1..n
RECURSIVE Tracks(_, _)
Tracks(raw, n) ==
    IF n = 0 THEN << >>
    ELSE LET tracks == Tracks(raw, n - 1)
         IN IF FindTrack(tracks, raw[n].url, 1) # 0 THEN tracks
            ELSE Append(tracks, raw[n].url)

NormalizeFrame(raw, i) ==
    LET r == RepairBounds(ClampBound(raw[i].begin), ClampBound(raw[i].end))
    IN [url |-> raw[i].url, begin |-> r.begin, end |-> r.end,
        audioRef |-> FindTrack(Tracks(raw, i), raw[i].url, 1)]

Normalize(raw) == [i \in 1..Len(raw) |-> NormalizeFrame(raw, i)]

RawFrame(u, b, e) == [url |-> u, begin |-> b, end |-> e]

\* The frame lists the player is constructed with.
RawLists ==
    { << RawFrame("a", <<0>>, <<300>>), RawFrame("a", <<300>>, <<600>>),
         RawFrame("b", <<200>>, <<500>>) >>,
      << RawFrame("a", <<300>>, <<100>>), RawFrame("a", <<400>>, << >>) >> }

\* frames are numbered from 0 in the program; the list is 1-based here
FrameCount == Len(audioFrames)
Frame(k) == audioFrames[k + 1]
\* audio: one track per distinct url; a track is named by its index, from 1 here
TrackIds == {audioFrames[i].audioRef : i \in 1..Len(audioFrames)}

\* (variant: the seek goes to begin as it is, -1 for an open start)
SeekPosRaw(f) == f.begin

SeekPos(f) == IF f.begin > 0 THEN f.begin ELSE minSeek

\* 0 <= currentFrame && currentFrame < audioFrames.length
ValidFrame(k) == 0 <= k /\ k < FrameCount

(***************************************************************************)
(* The mutable part of the player and engine that play, run and thread     *)
(* pass along, as a record.                                                *)
(***************************************************************************)
Cur ==
    [currentFrame |-> currentFrame, playState |-> playState,
     position |-> position, threadId |-> threadId,
     threadTimeoutId |-> threadTimeoutId, timeouts |-> timeouts,
     intervals |-> intervals, calls |-> << >>, notes |-> << >>,
     sched |-> << >>, tick |-> "none", err |-> "", requeued |-> FALSE,
     noToggle |-> FALSE]

\* a timer handle not in use and not held in a variable
Fresh(s) ==
    LET used == s.intervals \cup {t[1] : t \in s.timeouts}
                    \cup {s.threadId, s.threadTimeoutId}
    IN CHOOSE h \in 1..(Cardinality(used) + 1) :
           h \notin used /\ \A g \in 1..(h - 1) : g \in used

\* soundManager.stopAll()
stopAll(s) ==
    [s EXCEPT !.playState = [t \in TrackIds |-> 0],
              !.position = [t \in TrackIds |-> 0],
              !.calls = Append(@, <<"stopAll">>)]

\* audio[t].object.setPosition(p)
setPosition(s, t, p) ==
    [s EXCEPT !.position[t] = p, !.calls = Append(@, <<"setPosition", t, p>>)]

\* soundManager.play(audio[t].id)
playSound(s, t) ==
    [s EXCEPT !.playState[t] = 1, !.calls = Append(@, <<"play", t>>)]

\* if (typeof this.onFrameChange === 'function') this.onFrameChange(currentFrame)
\* bound: "this" is the player (the callback is registered on the player)
notify(s, bound) ==
    IF bound THEN [s EXCEPT !.notes = Append(@, s.currentFrame)] ELSE s

(***************************************************************************)
(* run(delay): starts, or prematurely updates, the thread.                 *)
(***************************************************************************)
\* (variant: the guard tests the interval's handle)
TimeoutPendingOnThreadId(s) == s.threadId # NULL

\* if (threadTimeoutId) return;
TimeoutPending(s) == s.threadTimeoutId # NULL

\* (variant: the cap at updateDelay is missing)
EffectiveDelayUncapped(delay) == IF delay = 0 THEN updateDelay ELSE delay

\* if (!delay) delay = updateDelay; if (delay > updateDelay) delay = updateDelay;
EffectiveDelay(delay) ==
    LET d == IF delay = 0 THEN updateDelay ELSE delay
    IN IF d > updateDelay THEN updateDelay ELSE d

run(s, delay) ==
    IF TimeoutPending(s) THEN s
    ELSE LET s1 == IF s.threadId # NULL
                   THEN [s EXCEPT !.intervals = @ \ {s.threadId},
                                  !.threadId = NULL]
                   ELSE s
             h == Fresh(s1)
             d == EffectiveDelay(delay)
         IN [s1 EXCEPT !.threadTimeoutId = h,
                       !.timeouts = @ \cup {<<h, d>>},
                       !.sched = Append(@, d)]

(***************************************************************************)
(* thread(): one scheduler tick.  bound says whether "this" is the player  *)
(* (called through delegate) or the global object (called directly).       *)
(***************************************************************************)
\* currentFrame === -1 || !(fromFrame <= currentFrame <= toFrame) || errorsLoading
NotPlaying(s) ==
    \/ s.currentFrame = Idle
    \/ ~(fromFrame <= s.currentFrame /\ s.currentFrame <= toFrame)
    \/ errorsLoading

\* is playing correct frame?
WithinFrame(f, pos) ==
    /\ f.begin <= pos + positionSlack
    /\ (f.end >= pos \/ f.end = Unbounded)

\* has smoothly played into next frame?
SmoothNext(f, g, pos) ==
    /\ g.audioRef = f.audioRef
    /\ g.begin <= pos
    /\ (g.end >= pos \/ g.end = Unbounded)

\* (variant: the end of the list instead of the end of the range)
IsLastFrameOfList(s) == s.currentFrame = FrameCount - 1

\* was playing last frame?
IsLastFrame(s) == s.currentFrame = toFrame

\* the delay to the end of the frame, floored
HoldDelay(f, pos) ==
    LET d == (IF f.end > 0 THEN f.end ELSE duration[f.audioRef]) - pos
    IN IF d < minDelay THEN minDelay ELSE d

\* currentFrame++; stopAll; setPosition; play   (order of lines 219-223)
SeekNext(s) ==
    LET k == s.currentFrame + 1
        t == Frame(k).audioRef
    IN playSound(setPosition(stopAll([s EXCEPT !.currentFrame = k]),
                             t, SeekPos(Frame(k))), t)

\* (variant: the idle branch clears nothing)
clearNothing(s) == s

\* is not playing: clearInterval(threadId); clearTimeout(threadId)
\* (timeouts and intervals share one pool of handles)
clearThread(s) ==
    [s EXCEPT !.intervals = @ \ {s.threadId},
              !.timeouts = {t \in @ : t[1] # s.threadId}]

thread(s, bound) ==
    IF NotPlaying(s)
    THEN [clearThread(s) EXCEPT !.tick = "idle"]
    ELSE LET f == Frame(s.currentFrame)
             t == f.audioRef
             pos == s.position[t]
         IN IF s.playState[t] # 0
            THEN IF WithinFrame(f, pos)
                 THEN run([s EXCEPT !.tick = "hold"], HoldDelay(f, pos))
                 ELSE LET s1 ==
                            IF IsLastFrame(s)
                            THEN [stopAll(s) EXCEPT !.currentFrame = Idle,
                                                    !.tick = "end"]
                            ELSE IF SmoothNext(f, Frame(s.currentFrame + 1), pos)
                            THEN [s EXCEPT !.currentFrame = @ + 1,
                                           !.tick = "smooth"]
                            ELSE [SeekNext(s) EXCEPT !.tick = "seek"]
                      IN run(notify(s1, bound), fastDelay)
            ELSE IF IsLastFrame(s)
                 THEN notify([stopAll(s) EXCEPT !.currentFrame = Idle,
                                                !.tick = "end"], bound)
                 ELSE run(notify([SeekNext(s) EXCEPT !.tick = "seek"], bound),
                          fastDelay)

(***************************************************************************)
(* play(from, to, noToggle)                                                *)
(***************************************************************************)
\* swap when from > to, then clamp from below and to above (lines 126-132)
ClampRange(from, to) ==
    LET f == IF from > to THEN to ELSE from
        t == IF from > to THEN from ELSE to
    IN [from |-> IF f < 0 THEN 0 ELSE f,
        to |-> IF t >= FrameCount THEN FrameCount - 1 ELSE t]

\* (variant: the negation of noToggle is lost)
ShouldToggleOnForce(s, noToggle) ==
    /\ ValidFrame(s.currentFrame)
    /\ s.playState[Frame(s.currentFrame).audioRef] # 0
    /\ noToggle

\* currentAudio && currentAudio.object.playState && !noToggle
ShouldToggle(s, noToggle) ==
    /\ ValidFrame(s.currentFrame)
    /\ s.playState[Frame(s.currentFrame).audioRef] # 0
    /\ ~noToggle

\* if (!doneLoading) window.setTimeout(... play(from,to,noToggle) ..., 100), and
\* the call goes on.  The re-queued callback names play, which is no variable
\* in its scope (the method is this.play): when it fires it raises a
\* ReferenceError before it touches anything, so it is no action of its own.
requeue(s) == IF doneLoading THEN s ELSE [s EXCEPT !.requeued = TRUE]

\* lines 137-154; a TypeError (property of undefined or null) ends the call
playBody(s, from, noToggle) ==
    IF ValidFrame(s.currentFrame) /\ ~hasObject[Frame(s.currentFrame).audioRef]
    THEN [s EXCEPT !.err = "TypeError"]
    ELSE IF ShouldToggle(s, noToggle)
    THEN run(notify([stopAll(s) EXCEPT !.currentFrame = Idle], TRUE), 0)
    ELSE LET s1 == [stopAll(s) EXCEPT !.currentFrame = from]
         IN IF ~ValidFrame(from) THEN [s1 EXCEPT !.err = "TypeError"]
            ELSE IF ~hasObject[Frame(from).audioRef]
            THEN [s1 EXCEPT !.err = "TypeError"]
            ELSE LET t == Frame(from).audioRef
                 IN run(notify(playSound(setPosition(s1, t, SeekPos(Frame(from))),
                                         t), TRUE), 0)

\* what the handler named did: the branch thread() took and the error raised
Op(name, s) ==
    [op |-> name, tick |-> s.tick, err |-> s.err, requeued |-> s.requeued,
     noToggle |-> s.noToggle]

\* the record's fields become the next state
Assign(s) ==
    /\ currentFrame' = s.currentFrame
    /\ playState' = s.playState
    /\ position' = s.position
    /\ threadId' = s.threadId
    /\ threadTimeoutId' = s.threadTimeoutId
    /\ timeouts' = s.timeouts
    /\ intervals' = s.intervals
    /\ calls' = s.calls
    /\ notes' = s.notes
    /\ sched' = s.sched

play(from, to, noToggle) ==
    /\ IF errorsLoading
       THEN /\ Assign(Cur)
            /\ lastOp' = Op("play", [Cur EXCEPT !.noToggle = noToggle])
            /\ UNCHANGED << fromFrame, toFrame >>
       ELSE LET r == ClampRange(from, to)
                s == playBody(requeue([Cur EXCEPT !.noToggle = noToggle]),
                              r.from, noToggle)
            IN /\ fromFrame' = r.from
               /\ toFrame' = r.to
               /\ Assign(s)
               /\ lastOp' = Op("play", s)
    /\ UNCHANGED << audioFrames, audio, duration, hasObject, readyState, smState, doneLoading,
                    errorsLoading, loadTimer >>

\* (variant: stop reports the idle frame to onFrameChange)
stopBodyNotifying(s) == notify([stopAll(s) EXCEPT !.currentFrame = Idle], TRUE)

\* soundManager.stopAll(); currentFrame = -1;
stopBody(s) == [stopAll(s) EXCEPT !.currentFrame = Idle]

stop ==
    /\ Assign(stopBody(Cur))
    /\ lastOp' = Op("stop", Cur)
    /\ UNCHANGED << audioFrames, audio, duration, hasObject, readyState, smState, doneLoading,
                    errorsLoading, loadTimer, fromFrame, toFrame >>

(***************************************************************************)
(* load(): called by soundManager.onready (success) and by its own 50 ms   *)
(* timeout.                                                                *)
(***************************************************************************)
load ==
    /\ smState = "init" \/ loadTimer
    /\ smState' = "ready"
    /\ LET inspected == {t \in TrackIds : hasObject[t]}
           done == \A t \in inspected : readyState[t] \notin {0, 1}
           errs == errorsLoading \/ \E t \in inspected : readyState[t] = 3
           s == IF done THEN run(Cur, 0) ELSE Cur
       IN /\ hasObject' = [t \in TrackIds |-> TRUE]
          /\ readyState' = [t \in TrackIds |->
                               IF hasObject[t] THEN readyState[t] ELSE 1]
          /\ doneLoading' = done
          /\ errorsLoading' = errs
          /\ loadTimer' = ~done
          /\ Assign(s)
          /\ lastOp' = Op("load", s)
    /\ UNCHANGED << audioFrames, audio, duration, fromFrame, toFrame >>

\* soundManager.onready with oStatus.success false: load() is never called
onreadyFailure ==
    /\ smState = "init"
    /\ smState' = "failed"
    /\ Assign(Cur)
    /\ lastOp' = Op("onready", Cur)
    /\ UNCHANGED << audioFrames, audio, duration, hasObject, readyState, doneLoading,
                    errorsLoading, loadTimer, fromFrame, toFrame >>

(***************************************************************************)
(* Timers.                                                                 *)
(***************************************************************************)
\* the callback of run's setTimeout (lines 178-183); thread() is called directly
timeoutFires(tm) ==
    /\ tm \in timeouts
    /\ LET s0 == [Cur EXCEPT !.timeouts = @ \ {tm}, !.threadTimeoutId = NULL]
           s1 == thread(s0, FALSE)
           h == Fresh(s1)
           s2 == IF s0.threadId # NULL THEN s0
                 ELSE [s1 EXCEPT !.threadId = h, !.intervals = @ \cup {h}]
       IN \E s \in {s2} :
              /\ Assign(s)
              /\ lastOp' = Op("timeout", s)
    /\ UNCHANGED << audioFrames, audio, duration, hasObject, readyState, smState, doneLoading,
                    errorsLoading, loadTimer, fromFrame, toFrame >>

\* a tick of setInterval(delegate(that, thread), updateDelay)
intervalFires(h) ==
    /\ h \in intervals
    /\ \E s \in {thread(Cur, TRUE)} :
           /\ Assign(s)
           /\ lastOp' = Op("interval", s)
    /\ UNCHANGED << audioFrames, audio, duration, hasObject, readyState, smState, doneLoading,
                    errorsLoading, loadTimer, fromFrame, toFrame >>

(***************************************************************************)
(* The engine.                                                             *)
(***************************************************************************)
EngineStep(name) ==
    /\ lastOp' = Op(name, Cur)
    /\ calls' = << >>
    /\ notes' = << >>
    /\ sched' = << >>
    /\ UNCHANGED << audioFrames, audio, duration, hasObject, smState, doneLoading, errorsLoading,
                    loadTimer, fromFrame, currentFrame, toFrame,
                    threadId, threadTimeoutId, timeouts, intervals >>

\* a loading sound becomes ready (2) or fails (3)
engineLoaded(t, rs) ==
    /\ hasObject[t]
    /\ readyState[t] = 1
    /\ readyState' = [readyState EXCEPT ![t] = rs]
    /\ UNCHANGED << playState, position >>
    /\ EngineStep("engineLoaded")

\* a playing sound moves on
engineAdvance(t, p) ==
    /\ playState[t] # 0
    /\ p > position[t]
    /\ p <= TrackDuration
    /\ position' = [position EXCEPT ![t] = p]
    /\ UNCHANGED << playState, readyState >>
    /\ EngineStep("engineAdvance")

\* a playing sound finishes by itself
engineFinish(t) ==
    /\ playState[t] # 0
    /\ playState' = [playState EXCEPT ![t] = 0]
    /\ UNCHANGED << position, readyState >>
    /\ EngineStep("engineFinish")

(***************************************************************************)
(* Specifications.                                                         *)
(***************************************************************************)
Init ==
    /\ \E raw \in RawLists : /\ audioFrames = Normalize(raw)
                             /\ audio = Tracks(raw, Len(raw))
    /\ duration = [t \in TrackIds |-> TrackDuration]
    /\ hasObject = [t \in TrackIds |-> FALSE]
    /\ readyState = [t \in TrackIds |-> 0]
    /\ playState = [t \in TrackIds |-> 0]
    /\ position = [t \in TrackIds |-> 0]
    /\ smState = "init"
    /\ doneLoading = FALSE
    /\ errorsLoading = FALSE
    /\ loadTimer = FALSE
    /\ fromFrame = Idle
    /\ currentFrame = Idle
    /\ toFrame = Idle
    /\ threadId = NULL
    /\ threadTimeoutId = NULL
    /\ timeouts = {}
    /\ intervals = {}
    /\ lastOp = [op |-> "new", tick |-> "none", err |-> "", requeued |-> FALSE,
                 noToggle |-> FALSE]
    /\ calls = << >>
    /\ notes = << >>
    /\ sched = << >>

AnyArgs == (0 - ArgSlack)..(FrameCount - 1 + ArgSlack)
InRangeArgs == 0..(FrameCount - 1)

playAny == \E from \in AnyArgs, to \in AnyArgs, nt \in BOOLEAN : play(from, to, nt)

playInRange ==
    \E from \in InRangeArgs, to \in InRangeArgs, nt \in BOOLEAN : play(from, to, nt)

Environment ==
    \/ stop
    \/ load
    \/ onreadyFailure
    \/ \E tm \in timeouts : timeoutFires(tm)
    \/ \E h \in intervals : intervalFires(h)
    \/ \E t \in TrackIds, rs \in {2, 3} : engineLoaded(t, rs)
    \/ \E t \in TrackIds, p \in Positions : engineAdvance(t, p)
    \/ \E t \in TrackIds : engineFinish(t)

Next == playAny \/ Environment

Spec == Init /\ [][Next]_vars

\* play is only called with frame numbers of the list
NextInRange == playInRange \/ Environment

SpecInRange == Init /\ [][NextInRange]_vars

(***************************************************************************)
(* Properties.                                                             *)
(***************************************************************************)
TickRan(op) == op.op \in {"timeout", "interval"} /\ op.tick # "none"
Active == ~NotPlaying(Cur)
CurTrack == Frame(currentFrame).audioRef
IsSeek(c) == c[1] # "stopAll"

\* C1: after every play(from, to), whatever the integer arguments, the stored
\* range satisfies 0 <= fromFrame <= toFrame <= frameCount-1 and the frame the
\* call starts lies inside it.
C1_RangeClamped ==
    lastOp.op = "play" =>
        /\ 0 <= fromFrame
        /\ fromFrame <= toFrame
        /\ toFrame <= FrameCount - 1
        /\ (currentFrame # Idle =>
                fromFrame <= currentFrame /\ currentFrame <= toFrame)

\* C2: when play is only called with frame numbers of the list, currentFrame
\* is -1 or lies in fromFrame..toFrame in every reachable state; no tick
\* moves it past toFrame.
C2_CurrentInRange ==
    currentFrame = Idle \/ (fromFrame <= currentFrame /\ currentFrame <= toFrame)

\* C3: a play call without force-restart, made while a session is active and
\* the active frame's track reports that it is playing, stops all engine
\* playback, sets currentFrame to -1, emits exactly one notification carrying
\* -1, and neither seeks nor starts a track.
C3_ToggleLaw ==
    [][ ( /\ lastOp'.op = "play"
          /\ ~lastOp'.noToggle
          /\ ValidFrame(currentFrame)
          /\ hasObject[CurTrack]
          /\ playState[CurTrack] # 0 )
        => ( /\ calls' = << <<"stopAll">> >>
             /\ \A t \in TrackIds : playState'[t] = 0
             /\ currentFrame' = Idle
             /\ notes' = << Idle >> ) ]_vars

\* C3 witness: a play call has toggled a session off.
C3_Witness ==
    /\ lastOp.op = "play"
    /\ ~lastOp.noToggle
    /\ calls = << <<"stopAll">> >>
    /\ currentFrame = Idle
    /\ notes = << Idle >>
    /\ 0 <= fromFrame /\ fromFrame <= toFrame

\* C4: frames N and N+1 of the active range on one track with
\* end(N) = begin(N+1): the tick that finds the position past end(N) (and
\* inside frame N+1) advances currentFrame to N+1 with exactly one
\* notification (N+1) and no engine call.
C4_SmoothContinuation ==
    [][ ( /\ TickRan(lastOp')
          /\ Active
          /\ currentFrame < toFrame
          /\ Frame(currentFrame + 1).audioRef = CurTrack
          /\ Frame(currentFrame).end # Unbounded
          /\ Frame(currentFrame + 1).begin = Frame(currentFrame).end
          /\ playState[CurTrack] # 0
          /\ position[CurTrack] > Frame(currentFrame).end
          /\ \/ Frame(currentFrame + 1).end = Unbounded
             \/ position[CurTrack] <= Frame(currentFrame + 1).end )
        => ( /\ currentFrame' = currentFrame + 1
             /\ notes' = << currentFrame + 1 >>
             /\ calls' = << >> ) ]_vars

\* C5: frames N and N+1 of the active range on different tracks, or on one
\* track with begin(N+1) > end(N): the tick that finds the position past
\* end(N) advances to N+1 with exactly one notification (N+1), exactly one
\* seek (to frame N+1's track) and then one start of that track.
C5_Discontinuity ==
    [][ ( /\ TickRan(lastOp')
          /\ Active
          /\ currentFrame < toFrame
          /\ Frame(currentFrame).end # Unbounded
          /\ \/ Frame(currentFrame + 1).audioRef # CurTrack
             \/ Frame(currentFrame + 1).begin > Frame(currentFrame).end
          /\ playState[CurTrack] # 0
          /\ position[CurTrack] > Frame(currentFrame).end )
        => ( /\ currentFrame' = currentFrame + 1
             /\ notes' = << currentFrame + 1 >>
             /\ SelectSeq(calls', IsSeek) =
                    << <<"setPosition", Frame(currentFrame + 1).audioRef,
                         SeekPos(Frame(currentFrame + 1))>>,
                       <<"play", Frame(currentFrame + 1).audioRef>> >> ) ]_vars

\* C6: in a single-frame session (after play(k,k)), the tick that finds the
\* position past the frame's end, or the started track no longer playing,
\* goes idle with one notification (-1) and schedules no further wake-up: no
\* new one-shot and no periodic timer.
C6_SingleFrameTermination ==
    [][ ( /\ TickRan(lastOp')
          /\ Active
          /\ fromFrame = toFrame
          /\ \/ playState[CurTrack] = 0 /\ position[CurTrack] > 0
             \/ /\ playState[CurTrack] # 0
                /\ Frame(currentFrame).end # Unbounded
                /\ position[CurTrack] > Frame(currentFrame).end )
        => ( /\ currentFrame' = Idle
             /\ notes' = << Idle >>
             /\ sched' = << >>
             /\ timeouts' \subseteq timeouts
             /\ intervals' \subseteq intervals ) ]_vars

\* C7: while some track is not Ready, a play call changes neither
\* currentFrame nor the engine, emits no notification and starts no
\* scheduler pass.
AllReady == \A t \in TrackIds : hasObject[t] /\ readyState[t] = 2

C7_ReadinessGate ==
    [][ (lastOp'.op = "play" /\ ~AllReady)
        => ( /\ currentFrame' = currentFrame
             /\ playState' = playState
             /\ position' = position
             /\ calls' = << >>
             /\ notes' = << >>
             /\ sched' = << >> ) ]_vars

\* C8: a track the engine reports Failed is recorded in errorsLoading by the
\* time load() has stopped polling (from then on play is a no-op).
C8_LoadFailureDetected ==
    (doneLoading /\ ~loadTimer /\ \E t \in TrackIds : readyState[t] = 3)
        => errorsLoading

\* C9: after stop(), and after a tick that finds or makes the session idle,
\* no periodic timer and no one-shot wake-up is pending.
C9_Cancelled ==
    (lastOp.op = "stop" \/ (TickRan(lastOp) /\ lastOp.tick \in {"idle", "end"}))
        => (timeouts = {} /\ intervals = {})

\* C10: at most one one-shot wake-up is pending, at most one periodic timer is
\* live, and a live periodic timer's handle is held in threadId.
C10_OneTimerEach ==
    /\ Cardinality(timeouts) <= 1
    /\ Cardinality(intervals) <= 1
    /\ \A h \in intervals : h = threadId

\* C10 witness: a periodic tick asked for a wake-up while one was pending (the
\* request was dropped), and one timer of each kind is live.
C10_Witness ==
    /\ lastOp.op = "interval"
    /\ lastOp.tick = "hold"
    /\ sched = << >>
    /\ Cardinality(timeouts) = 1
    /\ intervals = {threadId}


\* C11: stop(), called in any state, stops all engine playback, sets
\* currentFrame to -1, leaves fromFrame and toFrame as they are and emits no
\* frame-change notification.
C11_StopEffect ==
    [][ lastOp'.op = "stop"
        => ( /\ calls' = << <<"stopAll">> >>
             /\ \A t \in TrackIds : playState'[t] = 0
             /\ currentFrame' = Idle
             /\ fromFrame' = fromFrame
             /\ toFrame' = toFrame
             /\ notes' = << >> ) ]_vars

\* C11 witness: stop() has ended a session that play had started.
C11_Witness ==
    /\ lastOp.op = "stop"
    /\ 0 <= fromFrame /\ fromFrame <= toFrame
    /\ currentFrame = Idle
    /\ notes = << >>


(***************************************************************************)
(* The loaded player under any engine report: the state after load() has   *)
(* run, with any duration, and an engine that may report any position of   *)
(* a playing track (before the frame, past its end, past the duration).    *)
(***************************************************************************)
Durations == {0, 500, TrackDuration}
ReportedPositions == {0, 1, 295, 300, 301, 650, 700, 705}

\* a playing sound reports position p
engineReports(t, p) ==
    /\ playState[t] # 0
    /\ position' = [position EXCEPT ![t] = p]
    /\ UNCHANGED << playState, readyState >>
    /\ EngineStep("engineReports")

InitLoaded ==
    /\ \E raw \in RawLists : /\ audioFrames = Normalize(raw)
                             /\ audio = Tracks(raw, Len(raw))
    /\ \E d \in Durations : duration = [t \in TrackIds |-> d]
    /\ hasObject = [t \in TrackIds |-> TRUE]
    /\ readyState = [t \in TrackIds |-> 2]
    /\ playState = [t \in TrackIds |-> 0]
    /\ position = [t \in TrackIds |-> 0]
    /\ smState = "ready"
    /\ doneLoading = TRUE
    /\ errorsLoading = FALSE
    /\ loadTimer = FALSE
    /\ fromFrame = Idle
    /\ currentFrame = Idle
    /\ toFrame = Idle
    /\ threadId = NULL
    /\ threadTimeoutId = 1
    /\ timeouts = {<<1, EffectiveDelay(0)>>}
    /\ intervals = {}
    /\ lastOp = [op |-> "load", tick |-> "none", err |-> "", requeued |-> FALSE,
                 noToggle |-> FALSE]
    /\ calls = << >>
    /\ notes = << >>
    /\ sched = << EffectiveDelay(0) >>

NextLoaded ==
    \/ playInRange
    \/ stop
    \/ \E tm \in timeouts : timeoutFires(tm)
    \/ \E h \in intervals : intervalFires(h)
    \/ \E t \in TrackIds, p \in ReportedPositions : engineReports(t, p)
    \/ \E t \in TrackIds : engineFinish(t)

SpecLoaded == InitLoaded /\ [][NextLoaded]_vars

\* C12: every one-shot wake-up that run() schedules, and so every pending
\* one, has a delay d with 10 <= d <= 100, whatever position and duration the
\* engine reports.
C12_DelayInBounds ==
    /\ \A tm \in timeouts : 10 <= tm[2] /\ tm[2] <= 100
    /\ \A i \in DOMAIN sched : 10 <= sched[i] /\ sched[i] <= 100

\* C12 witness: a tick found the reported position past the duration of an
\* open-ended frame and scheduled the floor delay.
C12_Witness ==
    /\ TickRan(lastOp)
    /\ lastOp.tick = "hold"
    /\ ValidFrame(currentFrame)
    /\ Frame(currentFrame).end = Unbounded
    /\ position[CurTrack] > duration[CurTrack]
    /\ sched = << 10 >>


(***************************************************************************)
(* The constructor applied to any frame list: audioFrames holds the        *)
(* argument, which the constructor normalises in place.                    *)
(***************************************************************************)
MaxFrames == 2
Urls == {"a", "b"}
RawBounds == { << >>, <<0>>, <<0 - 5>>, <<100>>, <<300>> }
RawFrames == {RawFrame(u, b, e) : u \in Urls, b \in RawBounds, e \in RawBounds}

RECURSIVE ListsOf(_, _)
ListsOf(S, n) ==
    IF n = 0 THEN { << >> }
    ELSE LET shorter == ListsOf(S, n - 1)
         IN shorter \cup {Append(l, x) : l \in {m \in shorter : Len(m) = n - 1},
                                          x \in S}

InitRaw ==
    /\ audioFrames \in {l \in ListsOf(RawFrames, MaxFrames) : Len(l) > 0}
    /\ audio = << >>
    /\ duration = << >>
    /\ hasObject = << >>
    /\ readyState = << >>
    /\ playState = << >>
    /\ position = << >>
    /\ smState = "init"
    /\ doneLoading = FALSE
    /\ errorsLoading = FALSE
    /\ loadTimer = FALSE
    /\ fromFrame = Idle
    /\ currentFrame = Idle
    /\ toFrame = Idle
    /\ threadId = NULL
    /\ threadTimeoutId = NULL
    /\ timeouts = {}
    /\ intervals = {}
    /\ lastOp = [op |-> "raw", raw |-> audioFrames]
    /\ calls = << >>
    /\ notes = << >>
    /\ sched = << >>

\* new ComicPlayer(audioFrames): lines 50-82
construct ==
    /\ lastOp.op = "raw"
    /\ audioFrames' = Normalize(audioFrames)
    /\ audio' = Tracks(audioFrames, Len(audioFrames))
    /\ LET tracks == 1..Len(audio')
       IN /\ duration' = [t \in tracks |-> TrackDuration]
          /\ hasObject' = [t \in tracks |-> FALSE]
          /\ readyState' = [t \in tracks |-> 0]
          /\ playState' = [t \in tracks |-> 0]
          /\ position' = [t \in tracks |-> 0]
    /\ lastOp' = [op |-> "new", raw |-> audioFrames]
    /\ UNCHANGED << smState, doneLoading, errorsLoading, loadTimer, fromFrame,
                    currentFrame, toFrame, threadId, threadTimeoutId, timeouts,
                    intervals, calls, notes, sched >>

SpecNorm == InitRaw /\ [][construct]_vars

Constructed == lastOp.op = "new"

\* C13: after construction, whatever the frame list, every frame has
\* begin = -1 or end = -1 or begin <= end.
C13_BoundRepair ==
    Constructed =>
        \A i \in 1..Len(audioFrames) :
            \/ audioFrames[i].begin = 0 - 1
            \/ audioFrames[i].end = 0 - 1
            \/ audioFrames[i].begin <= audioFrames[i].end

\* C13 witness: a frame given with end < begin, both positive, was repaired.
C13_Witness ==
    /\ Constructed
    /\ \E i \in 1..Len(audioFrames) :
          /\ lastOp.raw[i].begin = <<300>>
          /\ lastOp.raw[i].end = <<100>>
          /\ audioFrames[i].begin = 100
          /\ audioFrames[i].end = 300


\* first position of url u in the constructor's argument
FirstUse(u) ==
    CHOOSE i \in 1..Len(lastOp.raw) :
        /\ lastOp.raw[i].url = u
        /\ \A j \in 1..(i - 1) : lastOp.raw[j].url # u

\* C14: after construction the number of tracks equals the number of
\* distinct urls of the list, the tracks are in order of first appearance of
\* their urls, and every frame's audioRef names the track with the frame's url.
C14_Dedup ==
    Constructed =>
        /\ Len(audio) = Cardinality({lastOp.raw[i].url : i \in 1..Len(lastOp.raw)})
        /\ \A t1 \in 1..Len(audio), t2 \in 1..Len(audio) :
               t1 < t2 => FirstUse(audio[t1]) < FirstUse(audio[t2])
        /\ \A i \in 1..Len(audioFrames) :
               /\ audioFrames[i].audioRef \in 1..Len(audio)
               /\ audio[audioFrames[i].audioRef] = lastOp.raw[i].url

\* C14 witness: two frames share a url and one track was created for them.
C14_Witness ==
    /\ Constructed
    /\ Len(audioFrames) = 2
    /\ lastOp.raw[1].url = lastOp.raw[2].url
    /\ Len(audio) = 1
    /\ audioFrames[1].audioRef = 1
    /\ audioFrames[2].audioRef = 1


\* C15: every tick that changes currentFrame invokes onFrameChange exactly
\* once with the new currentFrame, whether the tick is run by the one-shot
\* wake-up or by the periodic timer.
C15_TickNotifies ==
    [][ (TickRan(lastOp') /\ currentFrame' # currentFrame)
        => notes' = << currentFrame' >> ]_vars

\* C16: a one-shot wake-up that fires during an active session runs a tick;
\* it is never discarded.
C16_WakeUpHonoured ==
    [][ (lastOp'.op = "timeout" /\ Active) => lastOp'.tick # "none" ]_vars

\* C17: a play call that completes while no wake-up is pending schedules the
\* first tick with delay 0.
C17_ImmediateFirstTick ==
    [][ (lastOp'.op = "play" /\ lastOp'.err = "" /\ threadTimeoutId = NULL)
        => sched' = << 0 >> ]_vars


\* C18: every seek made by play() or by a tick is on the track of the frame
\* that currentFrame then designates, to begin when begin > 0 and to 1
\* otherwise (never 0 or less), and the next engine call starts that track.
C18_SeekTarget ==
    \A i \in DOMAIN calls :
        calls[i][1] = "setPosition" =>
            /\ ValidFrame(currentFrame)
            /\ calls[i][2] = Frame(currentFrame).audioRef
            /\ Frame(currentFrame).begin > 0 => calls[i][3] = Frame(currentFrame).begin
            /\ Frame(currentFrame).begin <= 0 => calls[i][3] = 1
            /\ calls[i][3] >= 1
            /\ i < Len(calls)
            /\ calls[i + 1] = <<"play", calls[i][2]>>

\* C18 witness: a tick sought the next frame to its begin and started it.
C18_Witness ==
    /\ TickRan(lastOp)
    /\ lastOp.tick = "seek"
    /\ Frame(currentFrame).begin > 0
    /\ calls = << <<"stopAll">>,
                  <<"setPosition", CurTrack, Frame(currentFrame).begin>>,
                  <<"play", CurTrack>> >>


(***************************************************************************)
(* The loaded player with timers that fire: a pending one-shot and a live  *)
(* periodic timer do not stay pending for ever (the browser's event loop   *)
(* runs them).                                                             *)
(***************************************************************************)
InitFair == InitLoaded /\ duration = [t \in TrackIds |-> TrackDuration]

NextFair ==
    \/ playInRange
    \/ stop
    \/ \E tm \in timeouts : timeoutFires(tm)
    \/ \E h \in intervals : intervalFires(h)
    \/ \E t \in TrackIds, p \in Positions : engineAdvance(t, p)
    \/ \E t \in TrackIds : engineFinish(t)

FairSpec ==
    /\ InitFair /\ [][NextFair]_vars
    /\ WF_vars(\E tm \in timeouts : timeoutFires(tm))
    /\ WF_vars(\E h \in intervals : intervalFires(h))

Quiet == timeouts = {} /\ intervals = {}

\* C19: from every idle state, unless play is called again, a state with no
\* one-shot and no periodic timer pending is reached; and from such a state
\* no tick runs and no timer appears until play (or the first load) runs.
C19_Quiescence ==
    /\ (currentFrame = Idle) ~> (Quiet \/ lastOp.op = "play")
    /\ [][ (Quiet /\ lastOp'.op \notin {"play", "load"})
           => (Quiet' /\ ~TickRan(lastOp')) ]_vars

\* C19 witness: an idle tick of the periodic timer has cleared it, with no
\* one-shot left.
C19_Witness ==
    /\ lastOp.op = "interval"
    /\ lastOp.tick = "idle"
    /\ currentFrame = Idle
    /\ threadId # NULL
    /\ Quiet


(***************************************************************************)
(* C20.  No frame is skipped: with in-range play arguments, a scheduler    *)
(* tick leaves currentFrame unchanged, or moves it to the next frame       *)
(* (only below toFrame), or sets it to -1 (only at toFrame).               *)
(***************************************************************************)
C20_NoFrameSkipped ==
    [][ TickRan(lastOp')
        => \/ currentFrame' = currentFrame
           \/ /\ currentFrame' = currentFrame + 1
              /\ currentFrame # Idle
              /\ currentFrame < toFrame
           \/ /\ currentFrame' = Idle
              /\ currentFrame = toFrame ]_vars

C20_Witness ==
    /\ lastOp.op \in {"timeout", "interval"}
    /\ lastOp.tick \in {"smooth", "seek"}
    /\ fromFrame < currentFrame /\ currentFrame = toFrame

====
